---- MODULE Spec2Model ----
(***************************************************************************)
(* A model of lib/mockery.js: the module-level registries and hook state,  *)
(* the replacement loader and the facade operations that createInstance    *)
(* exports.  The host module system (Module._resolveFilename, Module._load *)
(* and Module._cache of require('module')) is the environment.             *)
(***************************************************************************)
EXTENDS Naturals, Sequences, FiniteSets, TLC

\* Number of facade / load calls explored from the initial state.
MaxSteps == 4

(***************************************************************************)
(* JavaScript values.  Every value has the same record shape so that any   *)
(* two values can be compared.                                             *)
(***************************************************************************)
NoKey == [dir |-> "", base |-> "", ext |-> ""]

Val(tag, text, key, n) == [tag |-> tag, text |-> text, key |-> key, n |-> n]

undefined == Val("undefined", "", NoKey, 0)
null == Val("null", "", NoKey, 0)
JsString(s) == Val("string", s, NoKey, 0)
JsNumber(s) == Val("number", s, NoKey, 0)
\* an opaque object handed to registerMock
MockObject(name) == Val("object", name, NoKey, 0)
\* the exports of the n-th module instance the host created for file `key`
ModuleExports(key, n) == Val("exports", "", key, n)
\* the exports of a module built into the host (never in Module._cache)
BuiltinExports(key) == Val("builtin", "", key, 0)
\* new Error(message)
Error(message) == Val("Error", message, NoKey, 0)

typeof(v) == IF v.tag \in {"exports", "builtin", "Error", "null"} THEN "object" ELSE v.tag

Return(v) == [kind |-> "return", value |-> v]
Throw(e) == [kind |-> "throw", value |-> e]

(***************************************************************************)
(* The host's files and its resolver.  A resolved filename is kept as its  *)
(* directory, base name and extension, which is what the code looks at.    *)
(***************************************************************************)
AppA == [dir |-> "/app/", base |-> "a", ext |-> ".js"]
Addon == [dir |-> "/node_modules/addon/", base |-> "addon", ext |-> ".node"]
Fs == [dir |-> "", base |-> "fs", ext |-> ""]

Keys == {AppA, Addon, Fs}

\* parentModule of the two callers that hold a facade (and issue loads)
AppTest == "/app/test.js"
LibSpec == "/lib/spec.js"
Callers == {AppTest, LibSpec}

Requests == {"./a", "addon", "fs"}

\* m._resolveFilename(request, parent); NoKey stands for its MODULE_NOT_FOUND throw
resolveFilename(request, parent) ==
    CASE request = "./a" -> IF parent = AppTest THEN AppA ELSE NoKey
      [] request = "addon" -> Addon
      [] request = "fs" -> Fs
      [] OTHER -> NoKey

\* matchNativeModuleId.test(id), with matchNativeModuleId = /\.node$/
matchNativeModuleId(id) == id.ext = ".node"

\* path.indexOf('/') !== -1
containsSlash(path) == path.dir # ""

(***************************************************************************)
(* Dictionaries: objects with a null prototype.                            *)
(***************************************************************************)
blank == [k \in {} |-> undefined]

has(obj, prop) == prop \in DOMAIN obj

\* obj[prop] = value
put(obj, prop, value) ==
    [k \in (DOMAIN obj) \cup {prop} |-> IF k = prop THEN value ELSE obj[k]]

\* delete obj[prop]
delete(obj, prop) == [k \in (DOMAIN obj) \ {prop} |-> obj[k]]

\* the truthiness of obj[prop] for a boolean-valued property
truthy(obj, prop) == has(obj, prop) /\ obj[prop]

createModuleNotFoundError(request) ==
    Val("Error:MODULE_NOT_FOUND", request, NoKey, 0)

defaultOptions ==
    [k \in {"useCleanCache", "warnOnReplace", "warnOnUnregistered"} |->
        k # "useCleanCache"]

\* opts is [given |-> whether an object was passed, obj |-> that object]
getEffectiveOptions(opts) ==
    IF opts.given
    THEN [k \in (DOMAIN defaultOptions) \cup (DOMAIN opts.obj) |->
            IF k \in DOMAIN opts.obj THEN opts.obj[k] ELSE defaultOptions[k]]
    ELSE defaultOptions

\* a module cache object: its identity and its own properties
Cache(id, entries) == [id |-> id, entries |-> entries]
nullCache == Cache(0, blank)

\* a bug the clean-cache claims must exclude: the native-module test is missing
copyAllModules(destination, source) ==
    Cache(destination.id,
          [k \in (DOMAIN destination.entries) \cup (DOMAIN source.entries) |->
              IF k \in DOMAIN source.entries
              THEN source.entries[k] ELSE destination.entries[k]])

copyNativeModules(destination, source) ==
    Cache(destination.id,
          [k \in (DOMAIN destination.entries) \cup
                 {id \in DOMAIN source.entries : matchNativeModuleId(id)} |->
              IF k \in DOMAIN source.entries /\ matchNativeModuleId(k)
              THEN source.entries[k] ELSE destination.entries[k]])

VARIABLES
    registeredMocks,        \* resolved key -> mock value
    registeredSubstitutes,  \* resolved key -> [name, parent, module]
    registeredAllowables,   \* resolved key -> [unhook, paths]
    originalLoader,         \* the saved m._load, or nullLoader
    originalCache,          \* the saved m._cache, or nullCache
    options,                \* the effective options
    m_load,                 \* the host's Module._load
    m_cache,                \* the host's Module._cache
    mockeryCache,           \* parentModule.id -> the facade made for it
    nextId,                 \* identity of the next object the run creates
    steps,                  \* calls made so far
    last                    \* the last call and what its caller observed

vars == <<registeredMocks, registeredSubstitutes, registeredAllowables,
          originalLoader, originalCache, options, m_load, m_cache, mockeryCache,
          nextId, steps, last>>

registries == <<registeredMocks, registeredSubstitutes, registeredAllowables>>
hookState == <<originalLoader, originalCache, m_load>>

Module_load == [fn |-> "Module._load", of |-> ""]
nullLoader == [fn |-> "null", of |-> ""]
\* the hookedLoader closure of the facade created for parentModule
hookedLoaderOf(parentModule) == [fn |-> "hookedLoader", of |-> parentModule]

Hooked == originalLoader # nullLoader

\* op: the function called; path: the key its module argument resolved to
Call(op, path, result, calls, warnings) ==
    [op |-> op, path |-> path, result |-> result, calls |-> calls,
     warnings |-> warnings]

LoaderCall(request, parent, isMain) ==
    [request |-> request, parent |-> parent, isMain |-> isMain]

\* the module cache the host holds when the library is first required: the
\* program under test has loaded its file modules (instance 0 of each)
InitialCache == Cache(1, [k \in {AppA, Addon} |-> ModuleExports(k, 0)])

\* a module object of the host: its id and which object of that id it is
ModuleObject(id, n) == [id |-> id, n |-> n]

\* the facade createInstance(parentModule) returns, the n-th object of the run
createInstance(parentModule, n) == Val("mockery", parentModule.id, NoKey, n)

\* the two callers have required the library: each holds its facade
InitialFacades ==
    [id \in Callers |->
        createInstance(ModuleObject(id, 0), IF id = AppTest THEN 2 ELSE 3)]

Init ==
    /\ registeredMocks = blank
    /\ registeredSubstitutes = blank
    /\ registeredAllowables = blank
    /\ originalLoader = nullLoader
    /\ originalCache = nullCache
    /\ options = blank
    /\ m_load = Module_load
    /\ m_cache = InitialCache
    /\ mockeryCache = InitialFacades
    /\ nextId = 4
    /\ steps = 0
    /\ last = Call("init", NoKey, Return(undefined), <<>>, <<>>)


(***************************************************************************)
(* The host's own loader, the function enable() saves in originalLoader:   *)
(* it resolves the request, answers from the live cache, and otherwise     *)
(* creates the module, caching it unless it is built into the host.        *)
(* Module bodies are taken to require nothing themselves.                  *)
(***************************************************************************)
Loaded(result, cache, id) == [result |-> result, cache |-> cache, id |-> id]

hostLoad(request, parent, isMain, cache, id) ==
    LET filename == resolveFilename(request, parent) IN
    IF filename = NoKey
    THEN Loaded(Throw(createModuleNotFoundError(request)), cache, id)
    ELSE IF has(cache.entries, filename)
    THEN Loaded(Return(cache.entries[filename]), cache, id)
    ELSE IF ~containsSlash(filename)
    THEN Loaded(Return(BuiltinExports(filename)), cache, id)
    ELSE Loaded(Return(ModuleExports(filename, id)),
                Cache(cache.id, put(cache.entries, filename, ModuleExports(filename, id))),
                id + 1)

(***************************************************************************)
(* What one call of a loader does: the caller's result, the calls made to  *)
(* the original loader, the console warnings, and the state it leaves.     *)
(***************************************************************************)
Outcome(result, calls, warnings, substitutes, allowables, cache, id) ==
    [result |-> result, calls |-> calls, warnings |-> warnings,
     substitutes |-> substitutes, allowables |-> allowables,
     cache |-> cache, id |-> id]

Failed(error) ==
    Outcome(Throw(error), <<>>, <<>>, registeredSubstitutes,
            registeredAllowables, m_cache, nextId)

\* originalLoader(request, parent, isMain) followed by `return`
passThrough(request, parent, isMain, warnings, allowables) ==
    LET r == hostLoad(request, parent, isMain, m_cache, nextId) IN
    Outcome(r.result, <<LoaderCall(request, parent, isMain)>>, warnings,
            registeredSubstitutes, allowables, r.cache, r.id)

\* originalLoader(name, context, isMain) for the substitute at path, its result
\* kept in subst.module and returned
substituteLoaded(path, name, context, isMain) ==
    LET r == hostLoad(name, context, isMain, m_cache, nextId) IN
    Outcome(r.result, <<LoaderCall(name, context, isMain)>>, <<>>,
            IF r.result.kind = "return"
            THEN put(registeredSubstitutes, path,
                     [registeredSubstitutes[path] EXCEPT !.module = r.result.value])
            ELSE registeredSubstitutes,
            registeredAllowables, r.cache, r.id)

\* a bug the substitute claims must exclude: the target is resolved from the
\* module that issued the load, not from the one that registered the substitute
loadSubstituteFromRequester(path, subst, parent, isMain) ==
    substituteLoaded(path, subst.name.text, parent, isMain)

\* subst.module = originalLoader(subst.name, subst.parent, isMain); return subst.module
loadSubstitute(path, subst, parent, isMain) ==
    substituteLoaded(path, subst.name.text, subst.parent, isMain)

\* a bug the observed-paths claim must exclude: the `already recorded` test is
\* missing
observePathAgain(path) ==
    LET allow == registeredAllowables[path] IN
    IF allow.unhook /\ containsSlash(path)
    THEN put(registeredAllowables, path,
             [allow EXCEPT !.paths = Append(allow.paths, path)])
    ELSE registeredAllowables

\* the allowable branch: record the path of an unhook allowable once
observePath(path) ==
    LET allow == registeredAllowables[path] IN
    IF allow.unhook /\ containsSlash(path)
       /\ ~(\E i \in 1..Len(allow.paths) : allow.paths[i] = path)
    THEN put(registeredAllowables, path,
             [allow EXCEPT !.paths = Append(allow.paths, path)])
    ELSE registeredAllowables

\* a bug the unregistered-load claim must exclude: the warning ignores the flag
unregisteredWarningAlways(request) ==
    << <<"WARNING: loading non-allowed module: ", request>> >>

unregisteredWarning(request) ==
    IF truthy(options, "warnOnUnregistered")
    THEN << <<"WARNING: loading non-allowed module: ", request>> >>
    ELSE <<>>

\* a bug the mock claims must exclude: the original module is loaded as well
mockHitLoadingOriginal(request, parent, isMain, path) ==
    [passThrough(request, parent, isMain, <<>>, registeredAllowables)
        EXCEPT !.result = Return(registeredMocks[path])]

\* return registeredMocks[path];
mockHit(request, parent, isMain, path) ==
    Outcome(Return(registeredMocks[path]), <<>>, <<>>,
            registeredSubstitutes, registeredAllowables, m_cache, nextId)

\* a bug the null-substitute claim must exclude: the error names the substitute
absentSubstituteNamingTarget(request, subst) ==
    Failed(createModuleNotFoundError(subst.name.tag))

\* throw createModuleNotFoundError(request);
absentSubstitute(request, subst) ==
    Failed(createModuleNotFoundError(request))

\* a bug the shared-state claim must exclude: a facade's hook honours only the
\* substitutes registered through that same facade
hookedLoaderOfOwnSubstitutes(request, parent, isMain) ==
    IF originalLoader = nullLoader
    THEN Failed(Error("Loader has not been hooked"))
    ELSE LET path == resolveFilename(request, parent) IN
    IF path = NoKey
    THEN Failed(createModuleNotFoundError(request))
    ELSE IF has(registeredMocks, path)
    THEN mockHit(request, parent, isMain, path)
    ELSE IF has(registeredSubstitutes, path)
            /\ hookedLoaderOf(registeredSubstitutes[path].parent) = m_load
    THEN IF registeredSubstitutes[path].name = null
         THEN absentSubstitute(request, registeredSubstitutes[path])
         ELSE loadSubstitute(path, registeredSubstitutes[path], parent, isMain)
    ELSE IF has(registeredAllowables, path)
    THEN passThrough(request, parent, isMain, <<>>, observePath(path))
    ELSE passThrough(request, parent, isMain, unregisteredWarning(request),
                     registeredAllowables)

hookedLoader(request, parent, isMain) ==
    IF originalLoader = nullLoader
    THEN Failed(Error("Loader has not been hooked"))
    ELSE LET path == resolveFilename(request, parent) IN
    IF path = NoKey
    THEN Failed(createModuleNotFoundError(request))
    ELSE IF has(registeredMocks, path)
    THEN mockHit(request, parent, isMain, path)
    ELSE IF has(registeredSubstitutes, path)
    THEN IF registeredSubstitutes[path].name = null
         THEN absentSubstitute(request, registeredSubstitutes[path])
         ELSE loadSubstitute(path, registeredSubstitutes[path], parent, isMain)
    ELSE IF has(registeredAllowables, path)
    THEN passThrough(request, parent, isMain, <<>>, observePath(path))
    ELSE passThrough(request, parent, isMain, unregisteredWarning(request),
                     registeredAllowables)

\* a call of the host's load entry point, whichever function is installed there
\* (a hookedLoader called through a reference kept from an earlier hook, the
\* only way to reach its first throw, is not among the calls explored)
require(request, parent, isMain) ==
    /\ steps < MaxSteps
    /\ LET o == IF m_load = Module_load
                THEN passThrough(request, parent, isMain, <<>>, registeredAllowables)
                ELSE hookedLoader(request, parent, isMain)
       IN /\ registeredSubstitutes' = o.substitutes
          /\ registeredAllowables' = o.allowables
          /\ m_cache' = o.cache
          /\ nextId' = o.id
          /\ last' = Call("require", resolveFilename(request, parent),
                          o.result, o.calls, o.warnings)
    /\ steps' = steps + 1
    /\ UNCHANGED <<registeredMocks, originalLoader, originalCache, options, m_load,
                   mockeryCache>>

\* what every function of a facade leaves behind: none touches mockeryCache
Done(op, path, result, warnings) ==
    /\ steps' = steps + 1
    /\ last' = Call(op, path, result, <<>>, warnings)
    /\ UNCHANGED mockeryCache

\* a bug the options claim must exclude: the defaults and opts are merged into
\* the live options, which keep the flags set before
hookKeepingOptions(parentModule, opts) ==
    /\ options' =
          [k \in (DOMAIN getEffectiveOptions(opts)) \cup (DOMAIN options) |->
              IF opts.given /\ has(opts.obj, k) THEN opts.obj[k]
              ELSE IF has(options, k) THEN options[k]
              ELSE defaultOptions[k]]
    /\ IF truthy(options', "useCleanCache")
       THEN /\ originalCache' = m_cache
            /\ m_cache' = copyNativeModules(Cache(nextId, blank), m_cache)
            /\ nextId' = nextId + 1
       ELSE UNCHANGED <<originalCache, m_cache, nextId>>
    /\ originalLoader' = m_load
    /\ m_load' = hookedLoaderOf(parentModule)

\* the hooking part of enable: lines 144-152
hook(parentModule, opts) ==
    /\ options' = getEffectiveOptions(opts)
    /\ IF truthy(options', "useCleanCache")
       THEN /\ originalCache' = m_cache
            /\ m_cache' = copyNativeModules(Cache(nextId, blank), m_cache)
            /\ nextId' = nextId + 1
       ELSE UNCHANGED <<originalCache, m_cache, nextId>>
    /\ originalLoader' = m_load
    /\ m_load' = hookedLoaderOf(parentModule)

\* a bug the enable claims must exclude: the `already hooked` return is missing
enableWithoutGuard(parentModule, opts) ==
    /\ steps < MaxSteps
    /\ hook(parentModule, opts)
    /\ UNCHANGED registries
    /\ Done("enable", NoKey, Return(undefined), <<>>)

enable(parentModule, opts) ==
    /\ steps < MaxSteps
    /\ IF originalLoader # nullLoader
       THEN UNCHANGED <<options, originalCache, m_cache, nextId, originalLoader, m_load>>
       ELSE hook(parentModule, opts)
    /\ UNCHANGED registries
    /\ Done("enable", NoKey, Return(undefined), <<>>)

\* a bug the disable claims must exclude: the saved loader is forgotten, not restored
disableKeepingHook ==
    /\ steps < MaxSteps
    /\ originalLoader' = nullLoader
    /\ UNCHANGED <<originalCache, m_cache, m_load, registries, options, nextId>>
    /\ Done("disable", NoKey, Return(undefined), <<>>)

\* disable reads no parentModule: the call is the same through every facade
disable ==
    /\ steps < MaxSteps
    /\ IF originalLoader = nullLoader
       THEN UNCHANGED <<originalCache, m_cache, originalLoader, m_load>>
       ELSE /\ IF truthy(options, "useCleanCache")
               THEN /\ m_cache' = copyNativeModules(originalCache, m_cache)
                    /\ originalCache' = nullCache
               ELSE UNCHANGED <<originalCache, m_cache>>
            /\ m_load' = originalLoader
            /\ originalLoader' = nullLoader
    /\ UNCHANGED <<registries, options, nextId>>
    /\ Done("disable", NoKey, Return(undefined), <<>>)

\* a bug the resetCache claims must exclude: the clean-cache test is missing
resetCacheUnguarded ==
    /\ steps < MaxSteps
    /\ m_cache' = Cache(nextId, blank)
    /\ nextId' = nextId + 1
    /\ UNCHANGED <<registries, options, hookState>>
    /\ Done("resetCache", NoKey, Return(undefined), <<>>)

resetCache ==
    /\ steps < MaxSteps
    /\ IF truthy(options, "useCleanCache") /\ originalCache # nullCache
       THEN /\ m_cache' = Cache(nextId, blank)
            /\ nextId' = nextId + 1
       ELSE UNCHANGED <<m_cache, nextId>>
    /\ UNCHANGED <<registries, options, hookState>>
    /\ Done("resetCache", NoKey, Return(undefined), <<>>)

\* a bug the saved-cache claim must exclude: the options are replaced, not updated
warnOnReplaceResetting(flag) ==
    /\ steps < MaxSteps
    /\ options' = put(blank, "warnOnReplace", flag)
    /\ UNCHANGED <<registries, hookState, m_cache, nextId>>
    /\ Done("warnOnReplace", NoKey, Return(undefined), <<>>)

warnOnReplace(flag) ==
    /\ steps < MaxSteps
    /\ options' = put(options, "warnOnReplace", flag)
    /\ UNCHANGED <<registries, hookState, m_cache, nextId>>
    /\ Done("warnOnReplace", NoKey, Return(undefined), <<>>)

warnOnUnregistered(flag) ==
    /\ steps < MaxSteps
    /\ options' = put(options, "warnOnUnregistered", flag)
    /\ UNCHANGED <<registries, hookState, m_cache, nextId>>
    /\ Done("warnOnUnregistered", NoKey, Return(undefined), <<>>)


(***************************************************************************)
(* The registration API of a facade.  parentModule is the module the       *)
(* facade was created for: every module argument resolves relative to it.  *)
(***************************************************************************)
replaceWarning(registry, path, text, mod) ==
    IF truthy(options, "warnOnReplace") /\ has(registry, path)
    THEN << <<text, mod>> >>
    ELSE <<>>

registerMock(parentModule, mod, mock) ==
    /\ steps < MaxSteps
    /\ LET path == resolveFilename(mod, parentModule) IN
       IF path = NoKey
       THEN /\ UNCHANGED registeredMocks
            /\ Done("registerMock", path, Throw(createModuleNotFoundError(mod)), <<>>)
       ELSE /\ registeredMocks' = put(registeredMocks, path, mock)
            /\ Done("registerMock", path, Return(undefined),
                    replaceWarning(registeredMocks, path,
                        "WARNING: Replacing existing mock for module: ", mod))
    /\ UNCHANGED <<registeredSubstitutes, registeredAllowables, options,
                   hookState, m_cache, nextId>>

deregisterMock(parentModule, mod) ==
    /\ steps < MaxSteps
    /\ LET path == resolveFilename(mod, parentModule) IN
       IF path = NoKey
       THEN /\ UNCHANGED registeredMocks
            /\ Done("deregisterMock", path, Throw(createModuleNotFoundError(mod)), <<>>)
       ELSE /\ registeredMocks' = delete(registeredMocks, path)
            /\ Done("deregisterMock", path, Return(undefined), <<>>)
    /\ UNCHANGED <<registeredSubstitutes, registeredAllowables, options,
                   hookState, m_cache, nextId>>

\* typeof subst !== "string" && subst !== null
invalidSubstitute(subst) == typeof(subst) # "string" /\ subst # null

registerSubstitute(parentModule, mod, subst) ==
    /\ steps < MaxSteps
    /\ LET path == resolveFilename(mod, parentModule) IN
       IF invalidSubstitute(subst)
       THEN /\ UNCHANGED registeredSubstitutes
            /\ Done("registerSubstitute", NoKey,
                    Throw(Error("Substitute must be a string or null")), <<>>)
       ELSE IF path = NoKey
       THEN /\ UNCHANGED registeredSubstitutes
            /\ Done("registerSubstitute", path,
                    Throw(createModuleNotFoundError(mod)), <<>>)
       ELSE /\ registeredSubstitutes' =
                   put(registeredSubstitutes, path,
                       [name |-> subst, parent |-> parentModule, module |-> undefined])
            /\ Done("registerSubstitute", path, Return(undefined),
                    replaceWarning(registeredSubstitutes, path,
                        "WARNING: Replacing existing substitute for module: ", mod))
    /\ UNCHANGED <<registeredMocks, registeredAllowables, options,
                   hookState, m_cache, nextId>>

deregisterSubstitute(parentModule, mod) ==
    /\ steps < MaxSteps
    /\ LET path == resolveFilename(mod, parentModule) IN
       IF path = NoKey
       THEN /\ UNCHANGED registeredSubstitutes
            /\ Done("deregisterSubstitute", path,
                    Throw(createModuleNotFoundError(mod)), <<>>)
       ELSE /\ registeredSubstitutes' = delete(registeredSubstitutes, path)
            /\ Done("deregisterSubstitute", path, Return(undefined), <<>>)
    /\ UNCHANGED <<registeredMocks, registeredAllowables, options,
                   hookState, m_cache, nextId>>

(***************************************************************************)
(* Allowables.  The single-module functions are written over the pair      *)
(* [allowables, cache] so that the array forms can apply them in turn.     *)
(***************************************************************************)
Applied(result, allowables, cache) ==
    [result |-> result, allowables |-> allowables, cache |-> cache]

\* matchNativeModuleId.test(path) && unhook
cannotUnhook(path, unhook) == matchNativeModuleId(path) /\ unhook

\* a bug the usage-error claim must exclude: the entry is written before the check
registerAllowableThenCheck(allowables, cache, parentModule, mod, unhook) ==
    LET path == resolveFilename(mod, parentModule) IN
    IF path = NoKey
    THEN Applied(Throw(createModuleNotFoundError(mod)), allowables, cache)
    ELSE Applied(IF cannotUnhook(path, unhook)
                 THEN Throw(Error("Cannot unhook native modules"))
                 ELSE Return(undefined),
                 put(allowables, path, [unhook |-> unhook, paths |-> <<>>]),
                 cache)

registerAllowableOn(allowables, cache, parentModule, mod, unhook) ==
    LET path == resolveFilename(mod, parentModule) IN
    IF path = NoKey
    THEN Applied(Throw(createModuleNotFoundError(mod)), allowables, cache)
    ELSE IF cannotUnhook(path, unhook)
    THEN Applied(Throw(Error("Cannot unhook native modules")), allowables, cache)
    ELSE Applied(Return(undefined),
                 put(allowables, path, [unhook |-> unhook, paths |-> <<>>]),
                 cache)

\* allow.paths.forEach(function (p) { delete m._cache[p]; })
evict(cache, paths) ==
    Cache(cache.id,
          [k \in (DOMAIN cache.entries) \ {paths[i] : i \in 1..Len(paths)} |->
              cache.entries[k]])

\* a bug the unhook claim must exclude: the entry is deleted, its paths stay cached
deregisterAllowableKeepingCache(allowables, cache, parentModule, mod) ==
    LET path == resolveFilename(mod, parentModule) IN
    IF path = NoKey
    THEN Applied(Throw(createModuleNotFoundError(mod)), allowables, cache)
    ELSE Applied(Return(undefined), delete(allowables, path), cache)

deregisterAllowableOn(allowables, cache, parentModule, mod) ==
    LET path == resolveFilename(mod, parentModule) IN
    IF path = NoKey
    THEN Applied(Throw(createModuleNotFoundError(mod)), allowables, cache)
    ELSE IF has(allowables, path)
    THEN Applied(Return(undefined), delete(allowables, path),
                 IF allowables[path].unhook
                 THEN evict(cache, allowables[path].paths) ELSE cache)
    ELSE Applied(Return(undefined), allowables, cache)

ApplyAllowables(op, path, a) ==
    /\ registeredAllowables' = a.allowables
    /\ m_cache' = a.cache
    /\ Done(op, path, a.result, <<>>)
    /\ UNCHANGED <<registeredMocks, registeredSubstitutes, options, hookState, nextId>>

registerAllowable(parentModule, mod, unhook) ==
    /\ steps < MaxSteps
    /\ ApplyAllowables("registerAllowable", resolveFilename(mod, parentModule),
           registerAllowableOn(registeredAllowables, m_cache, parentModule, mod, unhook))

deregisterAllowable(parentModule, mod) ==
    /\ steps < MaxSteps
    /\ ApplyAllowables("deregisterAllowable", resolveFilename(mod, parentModule),
           deregisterAllowableOn(registeredAllowables, m_cache, parentModule, mod))

\* registerAllowable(mod, unhook) through the facade of parentModule throws
refused(parentModule, mod, unhook) ==
    \/ resolveFilename(mod, parentModule) = NoKey
    \/ cannotUnhook(resolveFilename(mod, parentModule), unhook)

\* the index of the first element of mods that registerAllowable refuses, or
\* Len(mods) + 1 when it refuses none
firstRefused(parentModule, mods, unhook) ==
    IF \E i \in 1..Len(mods) : refused(parentModule, mods[i], unhook)
    THEN CHOOSE i \in 1..Len(mods) :
            /\ refused(parentModule, mods[i], unhook)
            /\ \A j \in 1..(i - 1) : ~refused(parentModule, mods[j], unhook)
    ELSE Len(mods) + 1

\* a bug the fail-fast claim must exclude: the list is validated as a whole, and
\* nothing is registered when one element is refused
registerEachAllOrNothing(allowables, cache, parentModule, mods, unhook) ==
    LET i == firstRefused(parentModule, mods, unhook)
        paths == {resolveFilename(mods[j], parentModule) : j \in 1..Len(mods)}
    IN IF i <= Len(mods)
       THEN Applied(registerAllowableOn(allowables, cache, parentModule, mods[i],
                                        unhook).result,
                    allowables, cache)
       ELSE Applied(Return(undefined),
                    [k \in (DOMAIN allowables) \cup paths |->
                        IF k \in paths THEN [unhook |-> unhook, paths |-> <<>>]
                        ELSE allowables[k]],
                    cache)

\* mods.forEach(...): the first element that throws ends the loop
RECURSIVE registerEach(_, _, _, _, _)
registerEach(allowables, cache, parentModule, mods, unhook) ==
    IF mods = <<>>
    THEN Applied(Return(undefined), allowables, cache)
    ELSE LET a == registerAllowableOn(allowables, cache, parentModule, Head(mods), unhook)
         IN IF a.result.kind = "throw" THEN a
            ELSE registerEach(a.allowables, a.cache, parentModule, Tail(mods), unhook)

RECURSIVE deregisterEach(_, _, _, _)
deregisterEach(allowables, cache, parentModule, mods) ==
    IF mods = <<>>
    THEN Applied(Return(undefined), allowables, cache)
    ELSE LET a == deregisterAllowableOn(allowables, cache, parentModule, Head(mods))
         IN IF a.result.kind = "throw" THEN a
            ELSE deregisterEach(a.allowables, a.cache, parentModule, Tail(mods))

registerAllowables(parentModule, mods, unhook) ==
    /\ steps < MaxSteps
    /\ ApplyAllowables("registerAllowables", NoKey,
           registerEach(registeredAllowables, m_cache, parentModule, mods, unhook))

deregisterAllowables(parentModule, mods) ==
    /\ steps < MaxSteps
    /\ ApplyAllowables("deregisterAllowables", NoKey,
           deregisterEach(registeredAllowables, m_cache, parentModule, mods))

\* the keys deregisterAll deletes from m._cache
unhookedPaths(allowables) ==
    { p \in Keys : \E mod \in DOMAIN allowables :
        /\ allowables[mod].unhook
        /\ \E i \in 1..Len(allowables[mod].paths) : allowables[mod].paths[i] = p }

\* a bug the deregisterAll claim must exclude: the registries are cleared, the
\* observed paths stay cached
deregisterAllKeepingCache ==
    /\ steps < MaxSteps
    /\ registeredMocks' = blank
    /\ registeredSubstitutes' = blank
    /\ registeredAllowables' = blank
    /\ UNCHANGED <<options, hookState, m_cache, nextId>>
    /\ Done("deregisterAll", NoKey, Return(undefined), <<>>)

deregisterAll ==
    /\ steps < MaxSteps
    /\ m_cache' = Cache(m_cache.id,
                        [k \in (DOMAIN m_cache.entries) \ unhookedPaths(registeredAllowables)
                            |-> m_cache.entries[k]])
    /\ registeredMocks' = blank
    /\ registeredSubstitutes' = blank
    /\ registeredAllowables' = blank
    /\ UNCHANGED <<options, hookState, nextId>>
    /\ Done("deregisterAll", NoKey, Return(undefined), <<>>)

(***************************************************************************)
(* The inputs explored.                                                    *)
(***************************************************************************)
MockValues == {MockObject("V1"), MockObject("V2")}

SubstituteArgs == {JsString("./a"), null, JsNumber("42")}

noOpts == [given |-> FALSE, obj |-> blank]
Opts(obj) == [given |-> TRUE, obj |-> obj]
EnableOpts ==
    { noOpts,
      Opts([k \in {"useCleanCache"} |-> TRUE]),
      Opts([k \in {"warnOnReplace", "warnOnUnregistered"} |-> FALSE]) }

ModLists == { <<"fs", "addon", "./a">> }

Next ==
    \/ \E p \in Callers, o \in EnableOpts : enable(p, o)
    \/ disable
    \/ resetCache
    \/ \E flag \in BOOLEAN : warnOnReplace(flag)
    \/ \E flag \in BOOLEAN : warnOnUnregistered(flag)
    \/ \E p \in Callers, mod \in Requests, mock \in MockValues : registerMock(p, mod, mock)
    \/ \E p \in Callers, mod \in Requests : deregisterMock(p, mod)
    \/ \E p \in Callers, mod \in Requests, subst \in SubstituteArgs :
          registerSubstitute(p, mod, subst)
    \/ \E p \in Callers, mod \in Requests : deregisterSubstitute(p, mod)
    \/ \E p \in Callers, mod \in Requests, unhook \in BOOLEAN :
          registerAllowable(p, mod, unhook)
    \/ \E p \in Callers, mods \in ModLists, unhook \in BOOLEAN :
          registerAllowables(p, mods, unhook)
    \/ \E p \in Callers, mod \in Requests : deregisterAllowable(p, mod)
    \/ \E p \in Callers, mods \in ModLists : deregisterAllowables(p, mods)
    \/ deregisterAll
    \/ \E request \in Requests, parent \in Callers, isMain \in BOOLEAN :
          require(request, parent, isMain)

Spec == Init /\ [][Next]_vars

(***************************************************************************)
(* Acquiring a facade.  exports.init looks the caller up by its module id  *)
(* and makes a facade only for an id it has not seen.                      *)
(***************************************************************************)
Acquired(facade, cache, id) == [facade |-> facade, cache |-> cache, id |-> id]

\* a bug the facade claim must exclude: the lookup is missing
initAlwaysCreating(parentModule) ==
    Acquired(createInstance(parentModule, nextId),
             put(mockeryCache, parentModule.id, createInstance(parentModule, nextId)),
             nextId + 1)

init(parentModule) ==
    IF has(mockeryCache, parentModule.id)
    THEN Acquired(mockeryCache[parentModule.id], mockeryCache, nextId)
    ELSE Acquired(createInstance(parentModule, nextId),
                  put(mockeryCache, parentModule.id, createInstance(parentModule, nextId)),
                  nextId + 1)

\* a call of exports.init(parentModule)
acquire(parentModule) ==
    /\ steps < MaxSteps
    /\ LET a == init(parentModule) IN
       /\ mockeryCache' = a.cache
       /\ nextId' = a.id
       /\ last' = Call("exports.init", NoKey, Return(a.facade), <<>>, <<>>)
    /\ steps' = steps + 1
    /\ UNCHANGED <<registries, options, hookState, m_cache>>

\* the modules that require the library: the two callers, and a module of the
\* program that the host loads twice (two module objects, one id)
Other == "/app/other.js"
ParentModules ==
    {ModuleObject(id, 0) : id \in Callers} \cup {ModuleObject(Other, n) : n \in {0, 1}}

NextFacades ==
    \/ Next
    \/ \E parentModule \in ParentModules : acquire(parentModule)

FacadeSpec == Init /\ [][NextFacades]_vars


(***************************************************************************)
(* A step of the run is a call: every action counts it in `steps` and      *)
(* names it in `last`.                                                     *)
(***************************************************************************)
Called(op) == steps' = steps + 1 /\ last'.op = op

\* the last call was a load through the installed hook that resolved to a key
HookedLoad == last.op = "require" /\ Hooked /\ last.path # NoKey

(***************************************************************************)
(* C1: while hooked, a load that resolves to a key with a mock returns     *)
(* exactly that mock and makes no call to the original loader, whatever    *)
(* substitute or allowable the key also has.  (A load changes neither the  *)
(* mocks nor the hook state, so the state after the load decides it.)      *)
(***************************************************************************)
C1_MockReturnedVerbatim ==
    (HookedLoad /\ has(registeredMocks, last.path))
        => /\ last.result = Return(registeredMocks[last.path])
           /\ last.calls = <<>>

C1_Witness ==
    /\ HookedLoad
    /\ has(registeredMocks, last.path)
    /\ has(registeredSubstitutes, last.path)
    /\ registeredSubstitutes[last.path].name = null
    /\ last.result = Return(registeredMocks[last.path])


\* the key has no mock and a substitute whose target is a name
SubstitutedBy(path) ==
    /\ path # NoKey
    /\ ~has(registeredMocks, path)
    /\ has(registeredSubstitutes, path)
    /\ registeredSubstitutes[path].name # null

(***************************************************************************)
(* C2: while hooked, a load that resolves to a key with no mock and a      *)
(* substitute target T calls the original loader once, with T, the         *)
(* parentModule of the facade that registered the substitute and the       *)
(* load's own isMain, and returns (or throws) what that call does.         *)
(***************************************************************************)
C2_SubstituteLoadsTarget ==
    [][\A request \in Requests, parent \in Callers, isMain \in BOOLEAN :
        LET path == resolveFilename(request, parent) IN
        (/\ Hooked
         /\ Called("require")
         /\ SubstitutedBy(path)
         /\ require(request, parent, isMain))
            => LET subst == registeredSubstitutes[path]
                   direct == hostLoad(subst.name.text, subst.parent, isMain,
                                      m_cache, nextId)
               IN /\ last'.calls = <<LoaderCall(subst.name.text, subst.parent, isMain)>>
                  /\ last'.result = direct.result
                  /\ m_cache' = direct.cache]_vars

\* a load of "fs" came back with the module of the substitute "./a", which
\* only resolves from the registering facade's module
C2_Witness ==
    /\ HookedLoad
    /\ SubstitutedBy(last.path)
    /\ last.path = Fs
    /\ last.result.kind = "return"
    /\ last.result.value.key = AppA
    /\ last.calls = <<LoaderCall("./a", AppTest, TRUE)>>


(***************************************************************************)
(* C3: once a hooked load has stored the substitute's module on its entry  *)
(* (subst.module is set, and registering again would clear it), the next   *)
(* hooked load of the same key returns that stored instance and makes no   *)
(* call to the original loader.                                            *)
(***************************************************************************)
C3_SecondLoadServedFromEntry ==
    [][\A request \in Requests, parent \in Callers, isMain \in BOOLEAN :
        LET path == resolveFilename(request, parent) IN
        (/\ Hooked
         /\ Called("require")
         /\ SubstitutedBy(path)
         /\ registeredSubstitutes[path].module # undefined
         /\ require(request, parent, isMain))
            => /\ last'.calls = <<>>
               /\ last'.result = Return(registeredSubstitutes[path].module)]_vars


\* the key has no mock and a substitute whose target is null
AbsentBy(path) ==
    /\ path # NoKey
    /\ ~has(registeredMocks, path)
    /\ has(registeredSubstitutes, path)
    /\ registeredSubstitutes[path].name = null

(***************************************************************************)
(* C4: while hooked, a load that resolves to a key with no mock and a      *)
(* null substitute throws the MODULE_NOT_FOUND error made from the load's  *)
(* own request string, calls the original loader not at all, and leaves    *)
(* the registries, the cache, the hook and the options as they were.       *)
(***************************************************************************)
C4_NullSubstituteNotFound ==
    [][\A request \in Requests, parent \in Callers, isMain \in BOOLEAN :
        (/\ Hooked
         /\ Called("require")
         /\ AbsentBy(resolveFilename(request, parent))
         /\ require(request, parent, isMain))
            => /\ last'.result = Throw(createModuleNotFoundError(request))
               /\ last'.calls = <<>>
               /\ UNCHANGED <<registries, m_cache, hookState, options>>]_vars

\* such a load of "fs" failed, the key being an allowable as well
C4_Witness ==
    /\ HookedLoad
    /\ AbsentBy(last.path)
    /\ has(registeredAllowables, last.path)
    /\ last.result = Throw(createModuleNotFoundError("fs"))


(***************************************************************************)
(* C5: every disable() leaves the host's own loader installed and the      *)
(* state Unhooked, and a load made while Unhooked is the host's load of    *)
(* the unchanged (request, parent, isMain): no registry is consulted or    *)
(* changed (no observed path is recorded), and nothing is warned, whatever *)
(* is registered.                                                          *)
(***************************************************************************)
C5_DisabledLoadsFallThrough ==
    [][/\ Called("disable") => (~Hooked' /\ m_load' = Module_load)
       /\ \A request \in Requests, parent \in Callers, isMain \in BOOLEAN :
            (~Hooked /\ Called("require") /\ require(request, parent, isMain))
                => LET direct == hostLoad(request, parent, isMain, m_cache, nextId)
                   IN /\ last'.calls = <<LoaderCall(request, parent, isMain)>>
                      /\ last'.result = direct.result
                      /\ m_cache' = direct.cache
                      /\ last'.warnings = <<>>
                      /\ UNCHANGED <<registries, options, hookState>>]_vars

\* after an enable and a disable, a load of a mocked key returned the real module
C5_Witness ==
    /\ last.op = "require"
    /\ ~Hooked
    /\ has(options, "useCleanCache")
    /\ truthy(options, "warnOnUnregistered")
    /\ has(registeredMocks, last.path)
    /\ last.result.kind = "return"
    /\ last.result.value.tag = "exports"

(***************************************************************************)
(* C6: enable(opts) called while Hooked changes nothing, whatever opts is: *)
(* the options, the saved loader and cache, the live cache, the installed  *)
(* load function and the registries stay as the first enable left them.    *)
(***************************************************************************)
C6_EnableWhileHookedIsNoOp ==
    [][(Hooked /\ Called("enable"))
          => UNCHANGED <<options, originalLoader, originalCache, m_cache, m_load,
                         registries, nextId>>]_vars

\* a second enable found the clean-cache hook of the first still in place,
\* installed by the other facade
C6_Witness ==
    /\ last.op = "enable"
    /\ steps >= 2
    /\ Hooked
    /\ truthy(options, "useCleanCache")
    /\ originalCache # nullCache
    /\ m_load = hookedLoaderOf(LibSpec)


CleanCache == truthy(options, "useCleanCache")

\* the entries of a cache whose key is (is not) a native module's
nativeEntries(cache) ==
    [k \in {id \in DOMAIN cache.entries : matchNativeModuleId(id)} |-> cache.entries[k]]
otherEntries(cache) ==
    [k \in {id \in DOMAIN cache.entries : ~matchNativeModuleId(id)} |-> cache.entries[k]]

(***************************************************************************)
(* C7: with useCleanCache, the cache live after disable() is the one that  *)
(* was live before enable(), with the non-native entries it had then;      *)
(* what was loaded while hooked is in it only under a native-module key.   *)
(* In three steps: enable saves the live cache as it is; no call made      *)
(* while Hooked, of any kind, changes the saved cache or leaves clean-cache *)
(* mode; disable installs the saved cache, its non-native entries          *)
(* untouched, its native entries those of the cache it replaces where that *)
(* one has them.                                                           *)
(***************************************************************************)
C7_CleanCacheRestored ==
    [][/\ (~Hooked /\ Called("enable") /\ CleanCache')
            => originalCache' = m_cache
       /\ (Hooked /\ CleanCache /\ Hooked')
            => (originalCache' = originalCache /\ CleanCache')
       /\ (Hooked /\ CleanCache /\ Called("disable"))
            => /\ m_cache'.id = originalCache.id
               /\ otherEntries(m_cache') = otherEntries(originalCache)
               /\ \A k \in DOMAIN nativeEntries(m_cache') :
                    m_cache'.entries[k] =
                        IF has(m_cache.entries, k) THEN m_cache.entries[k]
                        ELSE originalCache.entries[k]
               /\ DOMAIN m_cache'.entries =
                    (DOMAIN originalCache.entries) \cup (DOMAIN nativeEntries(m_cache))]_vars

\* after a clean-cache cycle in which a new instance of /app/a.js was loaded
\* (a substitute entry still holds it), the restored cache is cache 1 with the
\* instance it had before
C7_Witness ==
    /\ last.op = "disable"
    /\ ~Hooked
    /\ CleanCache
    /\ m_cache.id = 1
    /\ m_cache.entries[AppA] = ModuleExports(AppA, 0)
    /\ \E k \in DOMAIN registeredSubstitutes :
          /\ registeredSubstitutes[k].module.key = AppA
          /\ registeredSubstitutes[k].module.n > 0


\* this step deregisters the allowable at key: deregisterAllowable through a
\* facade whose argument resolves to key, or deregisterAll
Deregisters(key) ==
    \/ Called("deregisterAllowable") /\ last'.path = key /\ last'.result.kind = "return"
    \/ Called("deregisterAll")

\* the last call was a load resolving to key, and key is (still) an allowable
LoadedAllowable(key) ==
    last.op = "require" /\ last.path = key /\ has(registeredAllowables, key)

\* the keys the step removed from the live cache
Evicted == (DOMAIN m_cache.entries) \ (DOMAIN m_cache'.entries)

C9_UsageErrorsChangeNothing ==
    [][\A parentModule \in Callers, mod \in Requests :
        /\ (/\ Called("registerAllowable")
            /\ resolveFilename(mod, parentModule).ext = ".node"
            /\ registerAllowable(parentModule, mod, TRUE))
                => /\ last'.result = Throw(Error("Cannot unhook native modules"))
                   /\ UNCHANGED <<registries, hookState, m_cache, options>>
        /\ \A subst \in SubstituteArgs :
            (/\ Called("registerSubstitute")
             /\ subst.tag \notin {"string", "null"}
             /\ registerSubstitute(parentModule, mod, subst))
                => /\ last'.result = Throw(Error("Substitute must be a string or null"))
                   /\ UNCHANGED <<registries, hookState, m_cache, options>>]_vars

\* registerAllowable("addon", true) was refused and the allowable registered
\* for addon before, with unhook false, is still there
C9_Witness ==
    /\ last.op = "registerAllowable"
    /\ last.path = Addon
    /\ last.result = Throw(Error("Cannot unhook native modules"))
    /\ has(registeredAllowables, Addon)
    /\ ~registeredAllowables[Addon].unhook


\* warnOnReplace has been turned off: enable options or warnOnReplace(false)
\* left the live flag false
ReplaceWarningsOff == has(options, "warnOnReplace") /\ ~options["warnOnReplace"]

(***************************************************************************)
(* C10: registerMock on a key that already has a mock overwrites the entry *)
(* with the new value, and emits the replacement warning exactly when      *)
(* warnOnReplace has not been turned off, the flag being true by default.  *)
(***************************************************************************)
C10_ReplaceWarnsByDefault ==
    [][\A parentModule \in Callers, mod \in Requests, mock \in MockValues :
        LET path == resolveFilename(mod, parentModule) IN
        (/\ Called("registerMock")
         /\ path # NoKey
         /\ has(registeredMocks, path)
         /\ registerMock(parentModule, mod, mock))
            => /\ registeredMocks'[path] = mock
               /\ last'.warnings =
                    IF ReplaceWarningsOff THEN <<>>
                    ELSE << <<"WARNING: Replacing existing mock for module: ", mod>> >>]_vars


\* the key has neither a mock nor a substitute
Unreplaced(path) ==
    /\ path # NoKey
    /\ ~has(registeredMocks, path)
    /\ ~has(registeredSubstitutes, path)

(***************************************************************************)
(* C11: while hooked, a load that resolves to a key with no mock and no    *)
(* substitute calls the original loader once with the load's own           *)
(* (request, parent, isMain) and returns (or throws) what that call does;  *)
(* it warns of an unregistered load exactly when the key has no allowable  *)
(* and the live warnOnUnregistered flag is true at that moment, the flag   *)
(* being what the last warnOnUnregistered(flag) made it.                   *)
(***************************************************************************)
C11_UnregisteredLoadPassesThrough ==
    [][/\ \A request \in Requests, parent \in Callers, isMain \in BOOLEAN :
            LET path == resolveFilename(request, parent) IN
            (/\ Hooked
             /\ Called("require")
             /\ Unreplaced(path)
             /\ require(request, parent, isMain))
                => LET direct == hostLoad(request, parent, isMain, m_cache, nextId)
                   IN /\ last'.calls = <<LoaderCall(request, parent, isMain)>>
                      /\ last'.result = direct.result
                      /\ m_cache' = direct.cache
                      /\ last'.warnings =
                            IF ~has(registeredAllowables, path)
                               /\ has(options, "warnOnUnregistered")
                               /\ options["warnOnUnregistered"]
                            THEN << <<"WARNING: loading non-allowed module: ", request>> >>
                            ELSE <<>>
       /\ \A flag \in BOOLEAN :
            (Hooked /\ Called("warnOnUnregistered") /\ warnOnUnregistered(flag))
                => /\ options'["warnOnUnregistered"] = flag
                   /\ UNCHANGED <<registries, hookState, m_cache>>]_vars

\* a clean-cache enable left the flag true, warnOnUnregistered(false) turned it
\* off, and the load of an unregistered key that followed passed through silently
C11_Witness ==
    /\ HookedLoad
    /\ Unreplaced(last.path)
    /\ ~has(registeredAllowables, last.path)
    /\ CleanCache
    /\ has(options, "warnOnUnregistered")
    /\ ~options["warnOnUnregistered"]
    /\ Len(last.calls) = 1
    /\ last.warnings = <<>>


\* key is an observed path of some allowable registered with unhook true
ObservedByUnhook(key) ==
    \E mod \in DOMAIN registeredAllowables :
        /\ registeredAllowables[mod].unhook
        /\ \E i \in 1..Len(registeredAllowables[mod].paths) :
              registeredAllowables[mod].paths[i] = key

(***************************************************************************)
(* C12: deregisterAll(), in any state, leaves the three registries empty   *)
(* and the live cache the same object, without exactly the observed paths  *)
(* of the allowables registered with unhook true; the hook (installed      *)
(* loader, saved loader, saved cache) and the options stay as they were.   *)
(***************************************************************************)
C12_DeregisterAllClearsRegistries ==
    [][Called("deregisterAll")
        => /\ registeredMocks' = blank
           /\ registeredSubstitutes' = blank
           /\ registeredAllowables' = blank
           /\ m_cache'.id = m_cache.id
           /\ DOMAIN m_cache'.entries =
                 {k \in DOMAIN m_cache.entries : ~ObservedByUnhook(k)}
           /\ \A k \in DOMAIN m_cache'.entries :
                 m_cache'.entries[k] = m_cache.entries[k]
           /\ Hooked' = Hooked
           /\ UNCHANGED <<originalLoader, originalCache, m_load, options>>]_vars

\* deregisterAll, called while hooked, has emptied the registries and removed
\* /app/a.js from the host's own cache
C12_Witness ==
    /\ last.op = "deregisterAll"
    /\ Hooked
    /\ registeredMocks = blank
    /\ registeredSubstitutes = blank
    /\ registeredAllowables = blank
    /\ m_cache.id = 1
    /\ ~has(m_cache.entries, AppA)
    /\ has(m_cache.entries, Addon)


(***************************************************************************)
(* C13: exports.init for a module id that has a facade returns that very   *)
(* facade and makes none; for an id that has none it makes one new facade, *)
(* different from every other, records it under the id and leaves the      *)
(* facades of the other ids as they were; and no other call changes which  *)
(* facade an id has, so two acquisitions for one id return the same        *)
(* instance whatever is called in between.                                 *)
(***************************************************************************)
C13_FacadeMemoizedPerCaller ==
    [][/\ \A parentModule \in ParentModules :
            (Called("exports.init") /\ acquire(parentModule))
                => IF has(mockeryCache, parentModule.id)
                   THEN /\ last'.result = Return(mockeryCache[parentModule.id])
                        /\ mockeryCache' = mockeryCache
                   ELSE /\ DOMAIN mockeryCache' = (DOMAIN mockeryCache) \cup {parentModule.id}
                        /\ \A id \in DOMAIN mockeryCache :
                              /\ mockeryCache'[id] = mockeryCache[id]
                              /\ mockeryCache'[id] # mockeryCache'[parentModule.id]
                        /\ last'.result = Return(mockeryCache'[parentModule.id])
       /\ ~Called("exports.init") => mockeryCache' = mockeryCache]_vars

\* the facade of /app/other.js was acquired again after a clean-cache enable
\* (which made a cache object in between): it is the facade made first
C13_Witness ==
    /\ last.op = "exports.init"
    /\ Hooked
    /\ CleanCache
    /\ has(mockeryCache, Other)
    /\ last.result = Return(mockeryCache[Other])
    /\ mockeryCache[Other].n < m_cache.id


(***************************************************************************)
(* C14: registerAllowables(mods, unhook) stops at the first element that   *)
(* registerAllowable refuses and throws its error: the keys of the         *)
(* elements before it hold a fresh entry with the given unhook flag and no *)
(* observed path, and every other key of the allowables, the key of the    *)
(* refused element and of those after it included, has the entry it had    *)
(* before the call or none.  Nothing else changes.                         *)
(***************************************************************************)
C14_RegisterAllowablesFailFast ==
    [][\A parentModule \in Callers, mods \in ModLists, unhook \in BOOLEAN :
        (Called("registerAllowables") /\ registerAllowables(parentModule, mods, unhook))
            => LET i == firstRefused(parentModule, mods, unhook)
                   before == {resolveFilename(mods[j], parentModule) : j \in 1..(i - 1)}
               IN /\ DOMAIN registeredAllowables' = (DOMAIN registeredAllowables) \cup before
                  /\ \A k \in before :
                        registeredAllowables'[k] = [unhook |-> unhook, paths |-> <<>>]
                  /\ \A k \in (DOMAIN registeredAllowables) \ before :
                        registeredAllowables'[k] = registeredAllowables[k]
                  /\ (i <= Len(mods)) <=> (last'.result.kind = "throw")
                  /\ UNCHANGED <<registeredMocks, registeredSubstitutes, hookState,
                                 m_cache, options>>]_vars

\* registerAllowables(["fs", "addon", "./a"]) through the facade of
\* /lib/spec.js failed on "./a", which does not resolve from there: fs and
\* addon are registered, /app/a.js is not
C14_Witness ==
    /\ last.op = "registerAllowables"
    /\ last.result = Throw(createModuleNotFoundError("./a"))
    /\ has(registeredAllowables, Fs)
    /\ has(registeredAllowables, Addon)
    /\ registeredAllowables[Addon] = [unhook |-> FALSE, paths |-> <<>>]
    /\ ~has(registeredAllowables, AppA)


(***************************************************************************)
(* C15: resetCache() never changes the saved original cache.  Called while *)
(* Hooked with useCleanCache true, it installs a new, empty live cache and *)
(* changes nothing else; called in any other state (never enabled, hooked  *)
(* without useCleanCache, or unhooked again after a clean-cache cycle) it  *)
(* changes nothing at all.                                                 *)
(***************************************************************************)
C15_ResetCacheKeepsSavedCache ==
    [][Called("resetCache")
        => /\ originalCache' = originalCache
           /\ UNCHANGED <<registries, options, originalLoader, m_load, mockeryCache>>
           /\ IF Hooked /\ CleanCache
              THEN /\ m_cache'.entries = blank
                   /\ m_cache'.id \notin {m_cache.id, originalCache.id}
              ELSE m_cache' = m_cache]_vars

\* resetCache, in a clean-cache hook, has replaced the live cache (which held
\* the native addon) with an empty one; the saved cache is the host's, intact
C15_Witness ==
    /\ last.op = "resetCache"
    /\ Hooked
    /\ CleanCache
    /\ m_cache.entries = blank
    /\ originalCache = InitialCache


(***************************************************************************)
(* C16: the native-module entries of the live cache survive resetCache():  *)
(* every entry under a key that matches the native-module pattern is in    *)
(* the live cache after the call as it was before, so that disable() still *)
(* copies it to the cache it restores.                                     *)
(***************************************************************************)
C16_NativeEntriesSurviveReset ==
    [][Called("resetCache")
        => \A k \in DOMAIN nativeEntries(m_cache) :
              /\ has(m_cache'.entries, k)
              /\ m_cache'.entries[k] = m_cache.entries[k]]_vars


\* a saved original cache exists
CacheSaved == originalCache # nullCache

(***************************************************************************)
(* C17: in every reachable state a saved original cache exists exactly     *)
(* when the state is Hooked and the effective useCleanCache is true; so    *)
(* disable() sees the useCleanCache its enable() used: called while Hooked *)
(* it installs the saved cache and empties the slot when a cache was       *)
(* saved, and leaves the live cache in place when none was.                *)
(***************************************************************************)
C17_SavedCacheIffCleanHook ==
    /\ [](CacheSaved <=> (Hooked /\ CleanCache))
    /\ [][(Hooked /\ Called("disable"))
            => /\ ~CacheSaved'
               /\ CleanCache' = CleanCache
               /\ IF CacheSaved
                  THEN m_cache'.id = originalCache.id
                  ELSE m_cache' = m_cache]_vars

\* a clean-cache hook was taken down after warnOnReplace(false) was called in
\* it: useCleanCache is still true, no cache is saved, the host's is live
C17_Witness ==
    /\ last.op = "disable"
    /\ ~Hooked
    /\ CleanCache
    /\ ReplaceWarningsOff
    /\ ~CacheSaved
    /\ m_cache.id = InitialCache.id


\* the observed paths of the allowable at key: at most its own key, once, and
\* none when it was registered with unhook false
OwnPathOnly(key) ==
    LET allow == registeredAllowables[key] IN
    /\ Len(allow.paths) <= 1
    /\ \A i \in 1..Len(allow.paths) : allow.paths[i] = key
    /\ ~allow.unhook => allow.paths = <<>>

(***************************************************************************)
(* C18: in every reachable state the observed paths of every allowable     *)
(* hold no duplicate and no key but the allowable's own resolved key, and  *)
(* none at all when its unhook flag is false; so deregisterAllowable       *)
(* removes from the live cache at most the key its argument resolves to,   *)
(* and no deregistration removes a key that is not an allowable's own.     *)
(***************************************************************************)
C18_ObservedPathsAreOwnKey ==
    /\ [](\A key \in DOMAIN registeredAllowables : OwnPathOnly(key))
    /\ [][(Called("deregisterAllowable") => Evicted \subseteq {last'.path})
           /\ ((\/ Called("deregisterAllowable")
                \/ Called("deregisterAllowables")
                \/ Called("deregisterAll"))
                  => Evicted \subseteq
                       {key \in DOMAIN registeredAllowables :
                           registeredAllowables[key].unhook})]_vars

\* fs, addon and ./a were registered with unhook false and ./a again with
\* unhook true; a hooked load of ./a has recorded /app/a.js under its own entry
\* and nothing under the others
C18_Witness ==
    /\ HookedLoad
    /\ last.path = AppA
    /\ DOMAIN registeredAllowables = Keys
    /\ registeredAllowables[AppA] = [unhook |-> TRUE, paths |-> <<AppA>>]
    /\ registeredAllowables[Addon] = [unhook |-> FALSE, paths |-> <<>>]
    /\ registeredAllowables[Fs] = [unhook |-> FALSE, paths |-> <<>>]


(***************************************************************************)
(* C19: the registries, the options and the hook belong to the library,    *)
(* not to a facade.  Whichever facade installed the hook, a hooked load    *)
(* is answered by the mock at its key, else by the substitute at its key   *)
(* (loaded relative to the facade that registered it), else passes through *)
(* unwarned when the key is an allowable, whichever facade registered      *)
(* them; disable() takes down the hook whichever facade installed it; and  *)
(* deregisterAll() empties the registries whichever facade filled them.    *)
(***************************************************************************)
C19_StateSharedByFacades ==
    [][/\ \A request \in Requests, parent \in Callers, isMain \in BOOLEAN :
            LET path == resolveFilename(request, parent) IN
            (/\ Hooked
             /\ Called("require")
             /\ path # NoKey
             /\ require(request, parent, isMain))
                => /\ has(registeredMocks, path)
                        => last'.result = Return(registeredMocks[path])
                   /\ SubstitutedBy(path)
                        => last'.calls =
                              <<LoaderCall(registeredSubstitutes[path].name.text,
                                           registeredSubstitutes[path].parent, isMain)>>
                   /\ AbsentBy(path)
                        => last'.result = Throw(createModuleNotFoundError(request))
                   /\ (Unreplaced(path) /\ has(registeredAllowables, path))
                        => /\ last'.warnings = <<>>
                           /\ last'.calls = <<LoaderCall(request, parent, isMain)>>
       /\ (Hooked /\ Called("disable"))
            => (~Hooked' /\ m_load' = originalLoader)
       /\ Called("deregisterAll")
            => (registeredMocks' = blank /\ registeredSubstitutes' = blank
                /\ registeredAllowables' = blank)]_vars

\* the hook is the one installed through the facade of /lib/spec.js; "fs" has
\* a substitute registered through the facade of /app/test.js, and a load of
\* "fs" was answered with it
C19_Witness ==
    /\ HookedLoad
    /\ m_load = hookedLoaderOf(LibSpec)
    /\ last.path = Fs
    /\ SubstitutedBy(Fs)
    /\ registeredSubstitutes[Fs].parent = AppTest
    /\ Len(last.calls) = 1
    /\ last.calls[1].parent = AppTest


\* the value enable(opts) gives an option: that of opts when opts has it, else
\* the default
Effective(opts, key, default) ==
    IF opts.given /\ has(opts.obj, key) THEN opts.obj[key] ELSE default

(***************************************************************************)
(* C20: enable(opts) called while Unhooked makes the effective options the *)
(* defaults overridden by opts, whatever they were: warnOnReplace and      *)
(* warnOnUnregistered are true and useCleanCache false unless opts says    *)
(* otherwise, so a flag set by warnOnReplace(flag) or                      *)
(* warnOnUnregistered(flag) before is discarded.  disable() leaves the     *)
(* effective options as they are.                                          *)
(***************************************************************************)
C20_EnableReplacesOptions ==
    [][/\ \A parentModule \in Callers, opts \in EnableOpts :
            (~Hooked /\ Called("enable") /\ enable(parentModule, opts))
                => /\ DOMAIN options' =
                        {"useCleanCache", "warnOnReplace", "warnOnUnregistered"}
                   /\ options'["warnOnReplace"] = Effective(opts, "warnOnReplace", TRUE)
                   /\ options'["warnOnUnregistered"] =
                        Effective(opts, "warnOnUnregistered", TRUE)
                   /\ options'["useCleanCache"] = Effective(opts, "useCleanCache", FALSE)
       /\ Called("disable") => options' = options]_vars

\* enable, called after an earlier clean-cache hook was taken down (the live
\* cache is the second clean cache made), has set the options anew
C20_Witness ==
    /\ last.op = "enable"
    /\ Hooked
    /\ CleanCache
    /\ options["warnOnReplace"]
    /\ options["warnOnUnregistered"]
    /\ originalCache = InitialCache
    /\ m_cache.id > InitialFacades[LibSpec].n + 1
    /\ m_cache.entries = nativeEntries(InitialCache)

====
